---- MODULE Spec2Model ----
(***************************************************************************)
(* json-mcp: the path-addressed JSON edit operations of src/src/tools.ts.  *)
(*                                                                         *)
(* A JSON value is a tree.  The operations work on JavaScript objects, so  *)
(* every call is run on a heap of nodes: the caller's document, the new    *)
(* value and the operation's clone live at different addresses, location   *)
(* records hold references to parents, and a write through a reference to  *)
(* a node that is no longer part of the result is simply not visible in    *)
(* it.  A text (a key, a string scalar, a path expression) is a sequence   *)
(* of one-character strings.                                               *)
(***************************************************************************)
EXTENDS Integers, Sequences, FiniteSets, TLC

VARIABLES doc, path, newValue, origin, last, variant, store, inbox, active, journal

vars == <<doc, path, newValue, origin, last, variant, store, inbox, active, journal>>

\* The variables of the caller of the functions, and those of the servers.
cvars == <<doc, path, newValue, origin, last>>

svars == <<variant, store, inbox, active, journal>>

\* Bounds of the enumerated inputs.
MaxLen == 3
MaxSize == 6

(***************************************************************************)
(* The value model.                                                        *)
(***************************************************************************)
Leaf(kind, n, s) == [kind |-> kind, n |-> n, s |-> s, kids |-> <<>>]

JNull == Leaf("null", 0, <<>>)

JBool(b) == Leaf("bool", IF b THEN 1 ELSE 0, <<>>)

JNum(n) == Leaf("num", n, <<>>)

JStr(cs) == Leaf("str", 0, cs)

\* An array: the elements in order; an element carries no key.
JArr(items) ==
  [kind |-> "arr", n |-> 0, s |-> <<>>,
   kids |-> [i \in 1..Len(items) |-> [k |-> <<>>, v |-> items[i]]]]

\* A map: the entries <<key, value>> in insertion order.
JMap(entries) ==
  [kind |-> "map", n |-> 0, s |-> <<>>,
   kids |-> [i \in 1..Len(entries) |-> [k |-> entries[i][1], v |-> entries[i][2]]]]

IsContainer(t) == t.kind \in {"arr", "map"}

IsScalar(t) == t.kind \in {"bool", "num", "str"}

RECURSIVE Size(_)
RECURSIVE SizeKids(_, _)
SizeKids(kids, i) ==
  IF i > Len(kids) THEN 0 ELSE Size(kids[i].v) + SizeKids(kids, i + 1)

\* Number of nodes of a tree.
Size(t) == 1 + SizeKids(t.kids, 1)

\* Routes of a tree: the sequences of child positions from the root.
RECURSIVE Routes(_)
Routes(t) ==
  {<<>>} \cup UNION {{<<i>> \o r : r \in Routes(t.kids[i].v)} : i \in 1..Len(t.kids)}

RECURSIVE Sub(_, _)
Sub(t, r) == IF r = <<>> THEN t ELSE Sub(t.kids[Head(r)].v, Tail(r))

(***************************************************************************)
(* The heap.  An address is a non-empty sequence of naturals; <<>> is the  *)
(* null reference.  A node is a value whose children are addresses.        *)
(***************************************************************************)
NullRef == <<>>

DataSpace == 1
ValueSpace == 2
CloneSpace == 3

\* The objects of tree t, allocated at the addresses <<space>> \o route.
HeapOf(space, t) ==
  [a \in {<<space>> \o r : r \in Routes(t)} |->
     LET s == Sub(t, Tail(a))
     IN [kind |-> s.kind, n |-> s.n, s |-> s.s,
         kids |-> [i \in 1..Len(s.kids) |-> [k |-> s.kids[i].k, v |-> a \o <<i>>]]]]

\* The value an address denotes (JSON.stringify: the tree below it).
RECURSIVE Value(_, _)
Value(h, a) ==
  [kind |-> h[a].kind, n |-> h[a].n, s |-> h[a].s,
   kids |-> [i \in 1..Len(h[a].kids) |->
               [k |-> h[a].kids[i].k, v |-> Value(h, h[a].kids[i].v)]]]

\* Variant: no copy is made, the operation works on the caller's objects.
CloneAlias(h, data) == [heap |-> h, root |-> data]

\* JSON.parse(JSON.stringify(data)): fresh objects for the whole tree.
Clone(h, data) ==
  [heap |-> HeapOf(CloneSpace, Value(h, data)) @@ h, root |-> <<CloneSpace>>]

(***************************************************************************)
(* Path expressions.  A path is the sequence of its segments after the     *)
(* root '$'; a segment is                                                  *)
(*   child   .key  or  ['key']        index   [i]                          *)
(*   wild    [*]   or  .*             slice   [i:j]                        *)
(*   union   [i,j]                    fkey    [?(@.key == i)]              *)
(*   fself   [?(@ == i)]                                                   *)
(* and deep is set when the segment follows the recursive descent '..'.    *)
(***************************************************************************)
Seg(t, deep, key, i, j) == [t |-> t, deep |-> deep, key |-> key, i |-> i, j |-> j]

Child(key) == Seg("child", FALSE, key, 0, 0)

\* ['key']: the child named in brackets and quotes.
Name(key) == Seg("name", FALSE, key, 0, 0)

Index(i) == Seg("index", FALSE, <<>>, i, 0)

Wild == Seg("wild", FALSE, <<>>, 0, 0)

Slice(i, j) == Seg("slice", FALSE, <<>>, i, j)

Union(i, j) == Seg("union", FALSE, <<>>, i, j)

FilterKey(key, n) == Seg("fkey", FALSE, key, n, 0)

FilterSelf(n) == Seg("fself", FALSE, <<>>, n, 0)

Deep(seg) == [seg EXCEPT !.deep = TRUE]

\* parentProperty of a location: the index in an array, the key in a map.
NoProp == [idx |-> -1, key |-> <<>>]

PropOf(h, parent, i) ==
  IF h[parent].kind = "arr"
  THEN [idx |-> i - 1, key |-> <<>>]
  ELSE [idx |-> -1, key |-> h[parent].kids[i].k]

\* The positions i..j of a sequence of positions, in order.
RECURSIVE Range(_, _)
Range(i, j) == IF i > j THEN <<>> ELSE <<i>> \o Range(i + 1, j)

RECURSIVE Keep(_, _)
\* The positions of ps that are in the set S, in the order of ps.
Keep(ps, S) ==
  IF ps = <<>> THEN <<>>
  ELSE (IF Head(ps) \in S THEN <<Head(ps)>> ELSE <<>>) \o Keep(Tail(ps), S)

Min(a, b) == IF a < b THEN a ELSE b

\* A filter on '@.key' reads a property of the child: of null it throws.
FilterThrows(h, seg, node) ==
  /\ seg.t = "fkey"
  /\ \E i \in 1..Len(node.kids) : h[node.kids[i].v].kind = "null"

FilterHolds(h, seg, c) ==
  IF seg.t = "fself"
  THEN h[c].kind = "num" /\ h[c].n = seg.i
  ELSE /\ h[c].kind = "map"
       /\ \E i \in 1..Len(h[c].kids) :
            /\ h[c].kids[i].k = seg.key
            /\ h[h[c].kids[i].v].kind = "num"
            /\ h[h[c].kids[i].v].n = seg.i

\* The child positions of node val that one segment selects, in the order
\* the evaluator visits them.
Select(h, seg, val) ==
  LET node == h[val]
      n == Len(node.kids)
      all == Range(1, n)
  IN CASE seg.t \in {"child", "name"} ->
            IF node.kind = "map"
            THEN Keep(all, {i \in 1..n : node.kids[i].k = seg.key})
            ELSE <<>>
       [] seg.t = "index" ->
            IF node.kind = "arr" /\ seg.i < n THEN <<seg.i + 1>> ELSE <<>>
       [] seg.t = "wild" -> all
       [] seg.t = "slice" ->
            IF node.kind = "arr"
            THEN Range(Min(n, seg.i) + 1, IF seg.j = 0 THEN n ELSE Min(n, seg.j))
            ELSE <<>>
       [] seg.t = "union" ->
            IF node.kind = "arr"
            THEN (IF seg.i < n THEN <<seg.i + 1>> ELSE <<>>)
                 \o (IF seg.j < n THEN <<seg.j + 1>> ELSE <<>>)
            ELSE <<>>
       [] OTHER ->
            Keep(all, {i \in 1..n : FilterHolds(h, seg, node.kids[i].v)})

Found(locs) == [err |-> FALSE, locs |-> locs]

Cat(a, b) == [err |-> a.err \/ b.err, locs |-> a.locs \o b.locs]

\* JSONPath({path, json, resultType: 'all'}): the location records
\* {value, parent, parentProperty} of the matches, in evaluation order; err
\* when the evaluation throws.
RECURSIVE Trace(_, _, _, _, _)
RECURSIVE TraceKids(_, _, _, _)
TraceKids(h, segs, val, ps) ==
  IF ps = <<>> THEN Found(<<>>)
  ELSE Cat(Trace(h, segs, h[val].kids[Head(ps)].v, val, PropOf(h, val, Head(ps))),
           TraceKids(h, segs, val, Tail(ps)))

Trace(h, segs, val, parent, prop) ==
  IF segs = <<>>
  THEN Found(<<[value |-> val, parent |-> parent, prop |-> prop]>>)
  ELSE LET seg == Head(segs)
           n == Len(h[val].kids)
       IN IF seg.deep
          THEN Cat(Trace(h, <<[seg EXCEPT !.deep = FALSE]>> \o Tail(segs), val, parent, prop),
                   TraceKids(h, segs, val,
                             Keep(Range(1, n),
                                  {i \in 1..n : h[h[val].kids[i].v].kind \in {"arr", "map"}})))
          ELSE IF FilterThrows(h, seg, h[val])
               THEN [err |-> TRUE, locs |-> <<>>]
               ELSE TraceKids(h, Tail(segs), val, Select(h, seg, val))

Resolve(h, root, p) == Trace(h, p, root, NullRef, NoProp)

(***************************************************************************)
(* Writes through a reference.                                             *)
(***************************************************************************)
\* s without its i-th element.
RemoveAt(s, i) == SubSeq(s, 1, i - 1) \o SubSeq(s, i + 1, Len(s))

HasKey(node, key) == \E i \in 1..Len(node.kids) : node.kids[i].k = key

Digits == <<"0", "1", "2", "3", "4", "5", "6", "7", "8", "9">>

\* String(n) of a natural number.
RECURSIVE NumStr(_)
NumStr(n) == IF n < 10 THEN <<Digits[n + 1]>> ELSE NumStr(n \div 10) \o <<Digits[(n % 10) + 1]>>

\* A key that is an array index: the canonical text of a natural number.
IsIndexKey(k) ==
  /\ k # <<>>
  /\ \A i \in 1..Len(k) : \E d \in 1..Len(Digits) : k[i] = Digits[d]
  /\ (Len(k) = 1 \/ k[1] # "0")

RECURSIVE KeyNum(_)
KeyNum(k) ==
  IF k = <<>> THEN 0
  ELSE 10 * KeyNum(SubSeq(k, 1, Len(k) - 1))
       + (CHOOSE d \in 0..9 : Digits[d + 1] = k[Len(k)])

\* The keys of an object after a new key is created: Object.keys lists the
\* index keys first, in ascending order, then the others as they were added.
InsertKey(kids, kid) ==
  IF IsIndexKey(kid.k)
  THEN LET before == Cardinality({j \in 1..Len(kids) :
                                   IsIndexKey(kids[j].k) /\ KeyNum(kids[j].k) < KeyNum(kid.k)})
       IN SubSeq(kids, 1, before) \o <<kid>> \o SubSeq(kids, before + 1, Len(kids))
  ELSE Append(kids, kid)

\* Variant: in an array the value is inserted before the slot (splice with
\* a delete count of 0) instead of overwriting it.
SetPropInsert(h, parent, prop, v) ==
  LET node == h[parent]
  IN IF node.kind = "arr"
     THEN [h EXCEPT ![parent].kids =
             SubSeq(node.kids, 1, prop.idx) \o <<[k |-> <<>>, v |-> v]>>
             \o SubSeq(node.kids, prop.idx + 1, Len(node.kids))]
     ELSE IF HasKey(node, prop.key)
          THEN [h EXCEPT ![parent].kids =
                  [i \in 1..Len(node.kids) |->
                     IF node.kids[i].k = prop.key
                     THEN [k |-> prop.key, v |-> v]
                     ELSE node.kids[i]]]
          ELSE [h EXCEPT ![parent].kids = Append(node.kids, [k |-> prop.key, v |-> v])]

\* parent[parentProperty] = v.
SetProp(h, parent, prop, v) ==
  LET node == h[parent]
  IN IF node.kind = "arr"
     THEN IF prop.idx + 1 \in 1..Len(node.kids)
          THEN [h EXCEPT ![parent].kids[prop.idx + 1].v = v]
          ELSE h
     ELSE IF HasKey(node, prop.key)
          THEN [h EXCEPT ![parent].kids =
                  [i \in 1..Len(node.kids) |->
                     IF node.kids[i].k = prop.key
                     THEN [k |-> prop.key, v |-> v]
                     ELSE node.kids[i]]]
          ELSE [h EXCEPT ![parent].kids = InsertKey(node.kids, [k |-> prop.key, v |-> v])]

\* parseInt(parentProperty) of an array index.
ParseInt(prop) == prop.idx

\* Variant: the element after the matched one is removed (splice(i + 1, 1)).
Splice1Next(h, parent, i) ==
  IF i + 2 \in 1..Len(h[parent].kids)
  THEN [h EXCEPT ![parent].kids = RemoveAt(h[parent].kids, i + 2)]
  ELSE h

\* parent.splice(i, 1): beyond the end it removes nothing.
Splice1(h, parent, i) ==
  IF i + 1 \in 1..Len(h[parent].kids)
  THEN [h EXCEPT ![parent].kids = RemoveAt(h[parent].kids, i + 1)]
  ELSE h

\* Variant: delete parent.parentProperty, the key of that literal name,
\* which no document here has.
DeleteKeyLiteral(h, parent, key) == h

\* delete parent[key].
DeleteKey(h, parent, key) ==
  LET kids == h[parent].kids
  IN [h EXCEPT ![parent].kids = Keep(kids, {kids[i] : i \in {j \in 1..Len(kids) : kids[j].k # key}})]

\* Variant: node.unshift(v).
PushFront(h, node, v) == [h EXCEPT ![node].kids = <<[k |-> <<>>, v |-> v]>> \o h[node].kids]

\* node.push(v).
Push(h, node, v) == [h EXCEPT ![node].kids = Append(h[node].kids, [k |-> <<>>, v |-> v])]

RECURSIVE Reverse(_)
Reverse(s) == IF s = <<>> THEN <<>> ELSE Reverse(Tail(s)) \o <<Head(s)>>

(***************************************************************************)
(* The operations.  Each returns the heap it leaves behind, whether it     *)
(* returned (ok, with the root of the returned document) or threw.         *)
(***************************************************************************)
Returned(h, root) == [ok |-> TRUE, heap |-> h, root |-> root, res |-> <<>>]

Thrown(h) == [ok |-> FALSE, heap |-> h, root |-> NullRef, res |-> <<>>]

\* Variant: only the first match is overwritten.
ReplaceFirst(h, locs, v) ==
  IF locs = <<>> \/ Head(locs).parent = NullRef THEN h
  ELSE SetProp(h, Head(locs).parent, Head(locs).prop, v)

RECURSIVE ReplaceEach(_, _, _)
ReplaceEach(h, locs, v) ==
  IF locs = <<>> THEN h
  ELSE LET r == Head(locs)
       IN ReplaceEach(IF r.parent # NullRef THEN SetProp(h, r.parent, r.prop, v) ELSE h,
                      Tail(locs), v)

\* Variant: the input is returned instead of the edited clone.
replaceAtPathReturnsData(h, data, p, v) ==
  LET c == Clone(h, data)
      results == Resolve(c.heap, c.root, p)
  IN IF results.err THEN Thrown(c.heap)
     ELSE Returned(ReplaceEach(c.heap, results.locs, v), data)

replaceAtPath(h, data, p, v) ==
  LET c == Clone(h, data)
      results == Resolve(c.heap, c.root, p)
  IN IF results.err THEN Thrown(c.heap)
     ELSE Returned(ReplaceEach(c.heap, results.locs, v), c.root)

\* Variant: a match without a parent, the root, is emptied.
RECURSIVE DeleteEachEmptiesRoot(_, _)
DeleteEachEmptiesRoot(h, locs) ==
  IF locs = <<>> THEN h
  ELSE LET r == Head(locs)
       IN DeleteEachEmptiesRoot(IF r.parent = NullRef THEN [h EXCEPT ![r.value].kids = <<>>]
                                ELSE IF h[r.parent].kind = "arr"
                                     THEN Splice1(h, r.parent, ParseInt(r.prop))
                                     ELSE DeleteKey(h, r.parent, r.prop.key),
                                Tail(locs))

RECURSIVE DeleteEach(_, _)
DeleteEach(h, locs) ==
  IF locs = <<>> THEN h
  ELSE LET r == Head(locs)
       IN DeleteEach(IF r.parent = NullRef THEN h
                     ELSE IF h[r.parent].kind = "arr"
                          THEN Splice1(h, r.parent, ParseInt(r.prop))
                          ELSE DeleteKey(h, r.parent, r.prop.key),
                     Tail(locs))

deleteAtPath(h, data, p) ==
  LET c == Clone(h, data)
      results == Resolve(c.heap, c.root, p)
  IN IF results.err THEN Thrown(c.heap)
     ELSE Returned(DeleteEach(c.heap, Reverse(results.locs)), c.root)

\* parent.splice(index + 1, 0, v).
SpliceIn(h, parent, i, v) ==
  LET kids == h[parent].kids
      at == Min(i + 1, Len(kids))
  IN [h EXCEPT ![parent].kids =
        SubSeq(kids, 1, at) \o <<[k |-> <<>>, v |-> v]>> \o SubSeq(kids, at + 1, Len(kids))]

NewItem == <<"n", "e", "w", "_", "i", "t", "e", "m">>

\* The while loop that looks for a key the map does not have.
RECURSIVE NewKey(_, _, _)
NewKey(node, newKey, counter) ==
  IF HasKey(node, newKey)
  THEN NewKey(node, NewItem \o <<"_">> \o NumStr(counter), counter + 1)
  ELSE newKey

RECURSIVE InsertEach(_, _, _)
InsertEach(h, locs, v) ==
  IF locs = <<>> THEN h
  ELSE LET r == Head(locs)
       IN InsertEach(IF r.parent = NullRef THEN h
                     ELSE IF h[r.parent].kind = "arr"
                          THEN SpliceIn(h, r.parent, ParseInt(r.prop), v)
                          ELSE SetProp(h, r.parent,
                                       [idx |-> -1, key |-> NewKey(h[r.parent], NewItem, 0)], v),
                     Tail(locs), v)

insertAtPath(h, data, p, v) ==
  LET c == Clone(h, data)
      results == Resolve(c.heap, c.root, p)
  IN IF results.err THEN Thrown(c.heap)
     ELSE Returned(InsertEach(c.heap, Reverse(results.locs), v), c.root)

\* Variant: a match that is not an array is passed over.
RECURSIVE AppendEachArray(_, _, _)
AppendEachArray(h, locs, v) ==
  IF locs = <<>> THEN [ok |-> TRUE, heap |-> h]
  ELSE LET node == Head(locs).value
       IN AppendEachArray(IF h[node].kind = "arr" THEN Push(h, node, v) ELSE h, Tail(locs), v)

\* The forEach of appendToArrayAtPath: it throws at the first match that is
\* not an array, after the pushes it has already made.
RECURSIVE AppendEach(_, _, _)
AppendEach(h, locs, v) ==
  IF locs = <<>> THEN [ok |-> TRUE, heap |-> h]
  ELSE LET node == Head(locs).value
       IN IF h[node].kind # "arr" THEN [ok |-> FALSE, heap |-> h]
          ELSE AppendEach(Push(h, node, v), Tail(locs), v)

\* Variant: a path without matches is an error.
appendToArrayAtPathNeedsMatch(h, data, p, v) ==
  LET c == Clone(h, data)
      results == Resolve(c.heap, c.root, p)
  IN IF results.err \/ results.locs = <<>> THEN Thrown(c.heap)
     ELSE LET e == AppendEach(c.heap, results.locs, v)
          IN IF e.ok THEN Returned(e.heap, c.root) ELSE Thrown(e.heap)

appendToArrayAtPath(h, data, p, v) ==
  LET c == Clone(h, data)
      results == Resolve(c.heap, c.root, p)
  IN IF results.err THEN Thrown(c.heap)
     ELSE LET e == AppendEach(c.heap, results.locs, v)
          IN IF e.ok THEN Returned(e.heap, c.root) ELSE Thrown(e.heap)

\* Variant: a path without matches is an error.
queryByPathNeedsMatch(h, data, p) ==
  LET results == Resolve(h, data, p)
  IN IF results.err \/ results.locs = <<>> THEN Thrown(h)
     ELSE [ok |-> TRUE, heap |-> h, root |-> NullRef,
           res |-> [i \in 1..Len(results.locs) |-> results.locs[i].value]]

\* JSONPath({path, json, wrap: true}): the matched values, not cloned.
queryByPath(h, data, p) ==
  LET results == Resolve(h, data, p)
  IN IF results.err THEN Thrown(h)
     ELSE [ok |-> TRUE, heap |-> h, root |-> NullRef,
           res |-> [i \in 1..Len(results.locs) |-> results.locs[i].value]]

(***************************************************************************)
(* Path expressions as text, as setAtPath reads them.                      *)
(***************************************************************************)
SegText(seg) ==
  (IF seg.deep THEN <<".", ".">> ELSE <<>>)
  \o CASE seg.t = "child" -> (IF seg.deep THEN <<>> ELSE <<".">>) \o seg.key
       [] seg.t = "name" -> <<"[", "'">> \o seg.key \o <<"'", "]">>
       [] seg.t = "index" -> <<"[">> \o NumStr(seg.i) \o <<"]">>
       [] seg.t = "wild" -> <<"[", "*", "]">>
       [] seg.t = "slice" -> <<"[">> \o NumStr(seg.i) \o <<":">> \o NumStr(seg.j) \o <<"]">>
       [] seg.t = "union" -> <<"[">> \o NumStr(seg.i) \o <<",">> \o NumStr(seg.j) \o <<"]">>
       [] seg.t = "fkey" ->
            <<"[", "?", "(", "@", ".">> \o seg.key \o <<"=", "=">> \o NumStr(seg.i) \o <<")", "]">>
       [] OTHER -> <<"[", "?", "(", "@", "=", "=">> \o NumStr(seg.i) \o <<")", "]">>

RECURSIVE SegsText(_)
SegsText(segs) == IF segs = <<>> THEN <<>> ELSE SegText(Head(segs)) \o SegsText(Tail(segs))

\* The path expression a caller writes for a sequence of segments.
PathText(segs) == <<"$">> \o SegsText(segs)

\* splitParentAndKey: scanning from the end, the first '.' that is outside
\* brackets and quotes; 0 when there is none.  i is the position looked at.
RECURSIVE SplitScan(_, _, _, _, _)
SplitScan(p, i, depth, inSingle, inDouble) ==
  IF i = 0 THEN 0
  ELSE LET ch == p[i]
           d == IF ch = "]" /\ ~inSingle /\ ~inDouble THEN depth + 1
                ELSE IF ch = "[" /\ ~inSingle /\ ~inDouble THEN depth - 1
                ELSE depth
           plain == ~(ch \in {"]", "["} /\ ~inSingle /\ ~inDouble)
           s == IF plain /\ ch = "'" /\ ~inDouble THEN ~inSingle ELSE inSingle
           q == IF plain /\ ~(ch = "'" /\ ~inDouble) /\ ch = "\"" /\ ~inSingle
                THEN ~inDouble ELSE inDouble
       IN IF ch = "." /\ d = 0 /\ ~s /\ ~q THEN i
          ELSE SplitScan(p, i - 1, d, s, q)

splitParentAndKey(p) ==
  LET i == SplitScan(p, Len(p), 0, FALSE, FALSE)
  IN IF i = 0 THEN [found |-> FALSE, parentPath |-> <<>>, keyExpr |-> <<>>]
     ELSE [found |-> TRUE, parentPath |-> SubSeq(p, 1, i - 1),
           keyExpr |-> SubSeq(p, i + 1, Len(p))]

WordChars ==
  {Digits[i] : i \in 1..10} \cup {"a", "b", "c", "x", "y", "A", "B", "X", "_"}

Quotes == {"'", "\""}

\* keyExpr.match(/^\[['"]?([A-Za-z0-9_]+)['"]?\]$/): the captured name, or
\* <<>> when the expression does not match.
BracketMatch(e) ==
  LET n == Len(e)
      lo == IF n >= 2 /\ e[2] \in Quotes THEN 3 ELSE 2
      hi == IF n >= 2 /\ e[n - 1] \in Quotes THEN n - 2 ELSE n - 1
  IN IF /\ n >= 3
        /\ e[1] = "["
        /\ e[n] = "]"
        /\ lo <= hi
        /\ \A i \in lo..hi : e[i] \in WordChars
     THEN SubSeq(e, lo, hi)
     ELSE <<>>

\* bracketMatch ? bracketMatch[1] : keyExpr.replace(/^\./, '')
KeyOf(e) ==
  IF BracketMatch(e) # <<>> THEN BracketMatch(e)
  ELSE IF e # <<>> /\ e[1] = "." THEN Tail(e) ELSE e

RECURSIVE Prefixes(_)
Prefixes(segs) ==
  {segs} \cup (IF segs = <<>> THEN {} ELSE Prefixes(SubSeq(segs, 1, Len(segs) - 1)))

\* The evaluator's reading of a path text: a trailing '.' is dropped, and
\* the text is one of the expressions over the segments of known.
ParsePath(text, known) ==
  LET t == IF text # <<>> /\ text[Len(text)] = "." THEN SubSeq(text, 1, Len(text) - 1) ELSE text
      hits == {q \in UNION {Prefixes(k) : k \in known} : PathText(q) = t}
  IN IF hits = {} THEN [ok |-> FALSE, segs |-> <<>>]
     ELSE [ok |-> TRUE, segs |-> CHOOSE q \in hits : TRUE]

(***************************************************************************)
(* setAtPath.                                                              *)
(***************************************************************************)
\* The update of the matches of setAtPath: array and map parents.
\* Variant: a match in an array is passed over.
RECURSIVE SetEachInMaps(_, _, _)
SetEachInMaps(h, locs, v) ==
  IF locs = <<>> THEN h
  ELSE LET r == Head(locs)
       IN SetEachInMaps(IF r.parent # NullRef /\ h[r.parent].kind = "map"
                        THEN SetProp(h, r.parent, r.prop, v) ELSE h,
                        Tail(locs), v)

RECURSIVE SetEach(_, _, _)
SetEach(h, locs, v) ==
  IF locs = <<>> THEN h
  ELSE LET r == Head(locs)
       IN SetEach(IF r.parent # NullRef THEN SetProp(h, r.parent, r.prop, v) ELSE h,
                  Tail(locs), v)

\* Variant: the key is set on every resolved parent that is a map.
RECURSIVE SetKeyEach(_, _, _, _)
SetKeyEach(h, locs, key, v) ==
  IF locs = <<>> THEN h
  ELSE SetKeyEach(IF h[Head(locs).value].kind = "map"
                  THEN SetProp(h, Head(locs).value, [idx |-> -1, key |-> key], v)
                  ELSE h,
                  Tail(locs), key, v)

SetCreateEveryParent(h, root, p, v, known) ==
  LET split == splitParentAndKey(PathText(p))
      parentPath == IF split.parentPath = <<>> THEN <<"$">> ELSE split.parentPath
      parsed == ParsePath(parentPath, known)
      parents == Resolve(h, root, parsed.segs)
  IN IF ~split.found \/ ~parsed.ok \/ parents.err \/ parents.locs = <<>> THEN Thrown(h)
     ELSE Returned(SetKeyEach(h, parents.locs, KeyOf(split.keyExpr), v), root)

\* The creation branch of setAtPath, when nothing matches.
SetCreate(h, root, p, v, known) ==
  LET split == splitParentAndKey(PathText(p))
      parentPath == IF split.parentPath = <<>> THEN <<"$">> ELSE split.parentPath
      key == KeyOf(split.keyExpr)
      parsed == ParsePath(parentPath, known)
      parents == Resolve(h, root, parsed.segs)
  IN IF ~split.found \/ ~parsed.ok \/ parents.err \/ parents.locs = <<>> THEN Thrown(h)
     ELSE LET parent == parents.locs[1].value
          IN IF h[parent].kind = "map"
             THEN Returned(SetProp(h, parent, [idx |-> -1, key |-> key], v), root)
             ELSE Thrown(h)

\* Variant: every match is updated, whatever the flag.
setAtPathEveryMatch(h, data, p, v, all, known) ==
  LET c == Clone(h, data)
      results == Resolve(c.heap, c.root, p)
  IN IF results.err THEN Thrown(c.heap)
     ELSE IF Len(results.locs) > 0
          THEN Returned(SetEach(c.heap, results.locs, v), c.root)
          ELSE SetCreate(c.heap, c.root, p, v, known)

setAtPath(h, data, p, v, all, known) ==
  LET c == Clone(h, data)
      results == Resolve(c.heap, c.root, p)
  IN IF results.err THEN Thrown(c.heap)
     ELSE IF Len(results.locs) > 0
          THEN Returned(SetEach(c.heap, IF all THEN results.locs ELSE <<results.locs[1]>>, v),
                        c.root)
          ELSE SetCreate(c.heap, c.root, p, v, known)

(***************************************************************************)
(* searchInJSON.                                                           *)
(***************************************************************************)
Uppers == <<"A", "B", "X">>

Lowers == <<"a", "b", "x">>

LowerChar(c) ==
  IF \E i \in 1..Len(Uppers) : Uppers[i] = c
  THEN Lowers[CHOOSE i \in 1..Len(Uppers) : Uppers[i] = c]
  ELSE c

\* toLowerCase().
ToLower(cs) == [i \in 1..Len(cs) |-> LowerChar(cs[i])]

\* hay.includes(needle).
Includes(hay, needle) ==
  \E i \in 1..(Len(hay) + 1) :
    /\ i + Len(needle) - 1 <= Len(hay)
    /\ SubSeq(hay, i, i + Len(needle) - 1) = needle

\* String(obj) of a number or a boolean.
StringOf(node) ==
  IF node.kind = "num" THEN NumStr(node.n)
  ELSE IF node.n = 1 THEN <<"t", "r", "u", "e">> ELSE <<"f", "a", "l", "s", "e">>

RECURSIVE search(_, _, _, _)
RECURSIVE SearchKids(_, _, _, _, _)
\* Variant: the elements of an array are counted from 1 in the path.
RECURSIVE SearchKidsFromOne(_, _, _, _, _)
SearchKidsFromOne(h, obj, ptext, lowerSearchText, i) ==
  IF i > Len(h[obj].kids) THEN <<>>
  ELSE LET kid == h[obj].kids[i]
           sub == IF h[obj].kind = "arr"
                  THEN ptext \o <<"[">> \o NumStr(i) \o <<"]">>
                  ELSE ptext \o <<".">> \o kid.k
       IN search(h, kid.v, sub, lowerSearchText)
          \o SearchKidsFromOne(h, obj, ptext, lowerSearchText, i + 1)

SearchKids(h, obj, ptext, lowerSearchText, i) ==
  IF i > Len(h[obj].kids) THEN <<>>
  ELSE LET kid == h[obj].kids[i]
           sub == IF h[obj].kind = "arr"
                  THEN ptext \o <<"[">> \o NumStr(i - 1) \o <<"]">>
                  ELSE ptext \o <<".">> \o kid.k
       IN search(h, kid.v, sub, lowerSearchText)
          \o SearchKids(h, obj, ptext, lowerSearchText, i + 1)

\* Variant: the strings of the document are compared as they are written.
searchCaseSensitive(h, obj, ptext, lowerSearchText) ==
  LET node == h[obj]
  IN CASE node.kind = "null" -> <<>>
       [] node.kind = "str" ->
            IF Includes(node.s, lowerSearchText)
            THEN <<[path |-> ptext, value |-> obj]>> ELSE <<>>
       [] node.kind \in {"num", "bool"} ->
            IF Includes(StringOf(node), lowerSearchText)
            THEN <<[path |-> ptext, value |-> obj]>> ELSE <<>>
       [] OTHER -> SearchKids(h, obj, ptext, lowerSearchText, 1)

search(h, obj, ptext, lowerSearchText) ==
  LET node == h[obj]
  IN CASE node.kind = "null" -> <<>>
       [] node.kind = "str" ->
            IF Includes(ToLower(node.s), lowerSearchText)
            THEN <<[path |-> ptext, value |-> obj]>> ELSE <<>>
       [] node.kind \in {"num", "bool"} ->
            IF Includes(ToLower(StringOf(node)), lowerSearchText)
            THEN <<[path |-> ptext, value |-> obj]>> ELSE <<>>
       [] OTHER -> SearchKids(h, obj, ptext, lowerSearchText, 1)

searchInJSON(h, data, searchText) ==
  [ok |-> TRUE, heap |-> h, root |-> NullRef,
   res |-> search(h, data, <<"$">>, ToLower(searchText))]

(***************************************************************************)
(* The enumerated inputs.                                                  *)
(***************************************************************************)
Ka == <<"a">>

Kb == <<"b">>

K1 == <<"1">>

Seqs(S, n) == UNION {[1..m -> S] : m \in 0..n}

Nums == {JNum(1), JNum(2)}

Items == {JMap(<<<<Ka, JNum(1)>>>>), JMap(<<<<Ka, JNum(2)>>>>)}

Values == {JNum(2), JArr(<<JMap(<<<<Ka, JNum(1)>>>>)>>)}

Needles == {<<"1">>, <<"x", "B">>}

\* Documents that are an array of maps, with the paths that address it.
RootDocs == {JArr(s) : s \in Seqs(Items, MaxLen - 1)}

RootPaths ==
  {<<>>, <<Wild>>, <<FilterKey(Ka, 1)>>, <<Union(1, 0)>>, <<Wild, Child(Ka)>>,
   <<Wild, Child(Kb)>>, <<Deep(Child(Ka))>>, <<Deep(FilterKey(Ka, 1))>>}
  \cup {<<Index(i)>> : i \in 0..1}

\* Documents that hold an array of numbers under the key a.
NestedDocs ==
  {JMap(<<<<Ka, JArr(s)>>, <<Kb, JNum(1)>>>>) :
     s \in {q \in Seqs(Nums, MaxLen) : q = <<>> \/ q[1] = JNum(1)}}

Steps ==
  {Wild, FilterSelf(1), Slice(1, MaxLen)}
  \cup {Index(i) : i \in 0..(MaxLen - 1)}
  \cup {Union(i, j) : i, j \in {0, MaxLen - 1}}

NestedPaths ==
  {<<>>, <<Child(Ka)>>, <<Child(Kb)>>, <<Child(Ka), Child(Kb)>>, <<Deep(Wild)>>}
  \cup {<<Child(Ka), s>> : s \in Steps}

\* Documents of other shapes: a scalar, nested matches, null, text.
OtherDocs ==
  {JNum(1),
   JMap(<<<<Ka, JNum(1)>>>>),
   JMap(<<<<Kb, JMap(<<<<Ka, JArr(<<>>)>>>>)>>, <<Ka, JArr(<<JMap(<<<<Ka, JArr(<<>>)>>>>)>>)>>>>),
   JArr(<<JArr(<<JNum(1)>>), JNull>>),
   JArr(<<JNull, JMap(<<<<Ka, JNum(1)>>>>)>>),
   JMap(<<<<Ka, JStr(<<"X", "b", "1">>)>>, <<Kb, JBool(TRUE)>>>>)}

OtherPaths ==
  {<<>>, <<Child(Ka)>>, <<Child(Kb)>>, <<Wild>>, <<Index(0)>>, <<FilterKey(Ka, 1)>>,
   <<Deep(Child(Ka))>>, <<Deep(Wild)>>, <<Child(Ka), Child(Kb)>>, <<Union(0, 0)>>,
   <<Child(Kb), Child(Ka)>>, <<Child(Kb), Name(Kb)>>, <<Child(Ka), Name(Kb)>>,
   <<Child(Ka), Index(0)>>, <<Child(K1)>>}

Paths == RootPaths \cup NestedPaths \cup OtherPaths

Cases ==
  (RootDocs \X RootPaths) \cup (NestedDocs \X NestedPaths) \cup (OtherDocs \X OtherPaths)

(***************************************************************************)
(* The caller.  doc is the document the caller holds, path and newValue    *)
(* the arguments of its calls; a call that returns a document makes that   *)
(* document the caller's.  origin tells which call produced doc, and from  *)
(* which input; last is the record of the last call: its input before      *)
(* the call (arg) and as the caller sees it after the call (seen), the     *)
(* outcome, and of a search its text (text); of the call that produced the *)
(* input an edit records the operation, a read the operation and its       *)
(* input.  The caller goes on from a document: it makes its next call      *)
(* after a call that returned one, and stops after any other call.         *)
(***************************************************************************)
NoCall == [op |-> "none", arg |-> JNull]

EditOps == {"replace", "append", "set", "setAll", "delete", "insert"}

Call(op, o, out, res) ==
  [op |-> op, arg |-> doc, seen |-> Value(o.heap, <<DataSpace>>), ok |-> o.ok,
   out |-> out, res |-> res, text |-> <<>>,
   from |-> IF op \in EditOps THEN [op |-> origin.op, arg |-> JNull] ELSE origin]

\* The heap at the start of a call: the caller's document and the value.
Heap0 == HeapOf(ValueSpace, newValue) @@ HeapOf(DataSpace, doc)

\* No server runs.
NoServer ==
  /\ variant = "none"
  /\ store = <<>>
  /\ inbox = <<>>
  /\ active = <<>>
  /\ journal = <<>>

Init ==
  /\ \E c \in Cases : doc = c[1] /\ path = c[2]
  /\ newValue \in Values
  /\ origin = NoCall
  /\ last = [op |-> "none", arg |-> JNull, seen |-> JNull, ok |-> TRUE,
             out |-> JNull, res |-> <<>>, text |-> <<>>, from |-> NoCall]
  /\ NoServer

Ready == last.op = "none" \/ (last.op \in EditOps /\ last.ok)

\* A call of an edit operation, with outcome o.
Edit(op, o) ==
  /\ Ready
  /\ last' = Call(op, o, IF o.ok THEN Value(o.heap, o.root) ELSE JNull, <<>>)
  /\ IF o.ok
     THEN /\ doc' = Value(o.heap, o.root)
          /\ origin' = [op |-> op, arg |-> doc]
     ELSE UNCHANGED <<doc, origin>>
  /\ UNCHANGED <<path, newValue>>
  /\ UNCHANGED svars

CallReplace ==
  /\ Size(doc) <= MaxSize
  /\ Edit("replace", replaceAtPath(Heap0, <<DataSpace>>, path, <<ValueSpace>>))

CallAppend ==
  /\ Size(doc) <= MaxSize
  /\ Edit("append", appendToArrayAtPath(Heap0, <<DataSpace>>, path, <<ValueSpace>>))

CallDelete == Edit("delete", deleteAtPath(Heap0, <<DataSpace>>, path))

CallQuery ==
  LET o == queryByPath(Heap0, <<DataSpace>>, path)
  IN /\ Ready
     /\ last' = Call("query", o, JNull, [i \in 1..Len(o.res) |-> Value(o.heap, o.res[i])])
     /\ UNCHANGED <<doc, path, newValue, origin>>
     /\ UNCHANGED svars

CallSet ==
  \E all \in BOOLEAN :
    /\ Size(doc) <= MaxSize
    /\ Edit(IF all THEN "setAll" ELSE "set",
            setAtPath(Heap0, <<DataSpace>>, path, <<ValueSpace>>, all, Paths))

CallSearch ==
  \E searchText \in Needles :
    LET o == searchInJSON(Heap0, <<DataSpace>>, searchText)
    IN /\ Ready
       /\ last' = [Call("search", o, JNull,
                         [i \in 1..Len(o.res) |->
                            [path |-> o.res[i].path, value |-> Value(o.heap, o.res[i].value)]])
                      EXCEPT !.text = searchText]
       /\ UNCHANGED <<doc, path, newValue, origin>>
       /\ UNCHANGED svars

CallInsert ==
  /\ Size(doc) <= MaxSize
  /\ Edit("insert", insertAtPath(Heap0, <<DataSpace>>, path, <<ValueSpace>>))

Next == CallReplace \/ CallAppend \/ CallSet \/ CallDelete \/ CallQuery \/ CallSearch

Spec == Init /\ [][Next]_vars

\* Keys as JSON allows them: with a dot, with brackets.
SpecialKeys == {Ka, Kb, <<"a", ".", "b">>, <<"a", "[", "0", "]">>}

\* Maps of two entries under such keys.
KeyDocs ==
  LET Vals == {JNum(1), JMap(<<<<Kb, JNum(1)>>>>), JArr(<<JNum(1)>>)}
  IN {JMap(<<<<k1, v1>>, <<k2, v2>>>>) :
        k1 \in SpecialKeys, k2 \in SpecialKeys, v1 \in Vals, v2 \in Vals}

KeyInit ==
  /\ doc \in {d \in KeyDocs : d.kids[1].k # d.kids[2].k}
  /\ path = <<>>
  /\ newValue \in Values
  /\ origin = NoCall
  /\ last = [op |-> "none", arg |-> JNull, seen |-> JNull, ok |-> TRUE,
             out |-> JNull, res |-> <<>>, text |-> <<>>, from |-> NoCall]
  /\ NoServer

\* The caller that searches documents with such keys.
KeySpec == KeyInit /\ [][CallSearch]_vars

\* The caller of the earlier tool set, which has insert.
InsertSpec == Init /\ [][CallInsert]_vars

(***************************************************************************)
(* The servers.  variant tells which server runs: "file", whose documents  *)
(* are files read and written at each call, "memory", whose one document  *)
(* is the variable jsonData, or "none" for the caller of the functions    *)
(* above.  store holds the persisted documents by name; inbox the tool     *)
(* calls received and not yet dispatched; active the handlers that have    *)
(* begun, each with the call, its place in the code and what it read;      *)
(* journal the calls answered so far, each with its response and the store *)
(* before and after it.                                                    *)
(***************************************************************************)
\* The calls a server of each variant receives.
MaxFileCalls == 2

MaxMemoryCalls == 3

Some(v) == [has |-> TRUE, v |-> v]

NoFile == [has |-> FALSE, v |-> ""]

NoPath == [has |-> FALSE, v |-> <<>>]

NoValue == [has |-> FALSE, v |-> JNull]

NoText == [has |-> FALSE, v |-> <<>>]

\* request.params: the tool name and the arguments object, which may be
\* absent as a whole, and each parameter of which may be absent.
Request(name, hasArgs, file, p, v, searchText, data) ==
  [name |-> name, hasArgs |-> hasArgs, file |-> file, path |-> p, newValue |-> v,
   searchText |-> searchText, data |-> data]

NoArgs(name) == Request(name, FALSE, NoFile, NoPath, NoValue, NoText, NoValue)

\* The response of a call that returned.
Ok(text, d, res) == [isError |-> FALSE, text |-> text, param |-> "", doc |-> d, res |-> res]

\* The response of the catch clause: text, and the name the text ends with.
Err(text, param) ==
  [isError |-> TRUE, text |-> text, param |-> param, doc |-> JNull, res |-> <<>>]

NoReply == [isError |-> FALSE, text |-> "none", param |-> "", doc |-> JNull, res |-> <<>>]

MissingText == "Error: Missing required parameter: "

UnknownText == "Error: Unknown tool: "

DestructureText == "Error: Cannot destructure property of 'args' as it is undefined."

ReadText == "Error: Failed to read or parse JSON file: "

\* The text the catch clause makes of an error of a core function.
CoreText(name) ==
  CASE name = "replace" -> "Error: Failed to replace at path: "
    [] name = "appendToArray" -> "Error: Failed to append to array at path: "
    [] name = "set" -> "Error: Failed to set at path: "
    [] name = "insert" -> "Error: Failed to insert at path: "
    [] name = "delete" -> "Error: Failed to delete at path: "
    [] OTHER -> "Error: Invalid JSONPath: "

StoredText == "Data stored successfully"

\* The call of the core function of a tool on the heap h.
Run(name, h, p, searchText, known) ==
  CASE name = "replace" -> replaceAtPath(h, <<DataSpace>>, p, <<ValueSpace>>)
    [] name = "appendToArray" -> appendToArrayAtPath(h, <<DataSpace>>, p, <<ValueSpace>>)
    [] name = "set" -> setAtPath(h, <<DataSpace>>, p, <<ValueSpace>>, FALSE, known)
    [] name = "insert" -> insertAtPath(h, <<DataSpace>>, p, <<ValueSpace>>)
    [] name = "delete" -> deleteAtPath(h, <<DataSpace>>, p)
    [] name = "query" -> queryByPath(h, <<DataSpace>>, p)
    [] OTHER -> searchInJSON(h, <<DataSpace>>, searchText)

\* The outcome o of a core function as the handler holds it: the edited
\* document of an edit, the result list of a read.
Outcome(name, o) ==
  [ok |-> o.ok,
   doc |-> IF o.ok /\ o.root # NullRef THEN Value(o.heap, o.root) ELSE JNull,
   res |-> IF name = "query"
           THEN [i \in 1..Len(o.res) |-> Value(o.heap, o.res[i])]
           ELSE [i \in 1..Len(o.res) |->
                   [path |-> o.res[i].path, value |-> Value(o.heap, o.res[i].value)]]]

\* What the core function of a tool makes of document d.
Core(name, d, p, v, searchText, known) ==
  Outcome(name, Run(name, HeapOf(ValueSpace, v) @@ HeapOf(DataSpace, d), p, searchText, known))

\* The file-backed server.
FileTools == {"search", "query", "replace", "appendToArray", "set", "delete"}

FileEdits == {"replace", "appendToArray", "set", "delete"}

\* The first required parameter a case finds undefined, "" when none.
Missing(req) ==
  IF ~req.file.has THEN "file"
  ELSE IF req.name = "search" THEN (IF req.searchText.has THEN "" ELSE "searchText")
  ELSE IF ~req.path.has THEN "path"
  ELSE IF req.name \in {"replace", "appendToArray"} /\ ~req.newValue.has THEN "newValue"
  ELSE IF req.name = "set" /\ ~req.newValue.has THEN "value"
  ELSE ""

\* readJSONFile: the document of a file that holds JSON, a throw otherwise.
readJSONFile(st, filePath) ==
  IF st[filePath].readable THEN [ok |-> TRUE, doc |-> st[filePath].doc]
  ELSE [ok |-> FALSE, doc |-> JNull]

\* Variant: nothing is written.
writeJSONFileNothing(st, filePath, data) == st

\* writeJSONFile.
writeJSONFile(st, filePath, data) ==
  [st EXCEPT ![filePath] = [readable |-> TRUE, doc |-> data]]

\* Where a handler stands: no await appears in the handlers, so no place
\* of a handler lets another handler run.
SuspendsAfterRead(pc) == pc = "read"

Suspends(pc) == FALSE

\* The response a file-backed case gives before it reads the file, NoReply
\* when it goes on to read.
FileEarly(req) ==
  IF req.name \notin FileTools THEN Err(UnknownText, req.name)
  ELSE IF ~req.hasArgs THEN Err(DestructureText, "")
  ELSE IF Missing(req) # "" THEN Err(MissingText, Missing(req))
  ELSE NoReply

\* Variant: the file is opened for writing before the edit is made, and a
\* failed edit leaves it empty.
FilePersistTruncating(st, req, o) ==
  IF req.name \in FileEdits
  THEN IF o.ok THEN writeJSONFile(st, req.file.v, o.doc)
       ELSE [st EXCEPT ![req.file.v] = [readable |-> FALSE, doc |-> JNull]]
  ELSE st

\* The store after a case that has read data and made o of it.
FilePersist(st, req, o) ==
  IF req.name \in FileEdits /\ o.ok THEN writeJSONFile(st, req.file.v, o.doc) ELSE st

\* The in-memory server.
MemoryTools == {"search", "query", "replace", "insert", "delete", "set_data", "get_data"}

MemoryEdits == {"replace", "insert", "delete"}

jsonData == "jsonData"

\* A value that counts as true in a condition.
Truthy(t) ==
  ~ \/ t.kind = "null"
    \/ t.kind = "bool" /\ t.n = 0
    \/ t.kind = "num" /\ t.n = 0
    \/ t.kind = "str" /\ t.s = <<>>

\* data || jsonData.
DataOr(data, stored) == IF data.has /\ Truthy(data.v) THEN data.v ELSE stored

\* !data.
Not(data) == ~(data.has /\ Truthy(data.v))

MemoryEarly(req) ==
  IF req.name \notin MemoryTools THEN Err(UnknownText, req.name)
  ELSE IF req.name # "get_data" /\ ~req.hasArgs THEN Err(DestructureText, "")
  ELSE NoReply

\* The store after a case that made o of the data it took.
MemoryPersist(st, req, o) ==
  IF req.name = "set_data" THEN [st EXCEPT ![jsonData].doc = req.data.v]
  ELSE IF req.name \in MemoryEdits /\ o.ok /\ Not(req.data)
       THEN [st EXCEPT ![jsonData].doc = o.doc]
       ELSE st

\* The documents, paths and value of the tool calls.
DocA == JMap(<<<<Ka, JArr(<<JNum(1)>>)>>, <<Kb, JNull>>>>)

DocB == JMap(<<<<Ka, JArr(<<JNum(2)>>)>>>>)

PathA == <<Child(Ka)>>

PathB == <<Child(Kb)>>

PathNew == <<Child(K1)>>

PathFirst == <<Child(Ka), Index(0)>>

PathFilter == <<FilterKey(Ka, 1)>>

ServerPaths == {PathA, PathB, PathNew, PathFirst, PathFilter}

\* The calls of the file-backed server: of each tool the calls with all
\* its parameters, the calls that lack one, and the call without arguments.
FileCall(name, file, p, v, searchText) ==
  Request(name, TRUE, file, p, v, searchText, NoValue)

FileRequests ==
  {NoArgs(name) : name \in {"search", "replace", "insert"}}
  \cup {FileCall("search", f, NoPath, NoValue, Some(<<"1">>)) :
          f \in {Some("f"), Some("g"), NoFile}}
  \cup {FileCall("search", Some("f"), NoPath, NoValue, NoText)}
  \cup {FileCall("query", Some("f"), p, NoValue, NoText) :
          p \in {Some(PathA), Some(PathFilter), NoPath}}
  \cup {FileCall("replace", f, Some(PathFirst), Some(JNum(2)), NoText) :
          f \in {Some("f"), Some("g")}}
  \cup {FileCall("replace", Some("f"), Some(PathFirst), NoValue, NoText),
        FileCall("replace", NoFile, NoPath, NoValue, NoText)}
  \cup {FileCall("appendToArray", Some("f"), Some(p), Some(JNum(2)), NoText) :
          p \in {PathA, PathB}}
  \cup {FileCall("appendToArray", Some("f"), Some(PathA), NoValue, NoText)}
  \cup {FileCall("set", Some("f"), Some(p), Some(JNum(2)), NoText) : p \in {PathNew, PathFirst}}
  \cup {FileCall("set", Some("f"), Some(PathNew), NoValue, NoText)}
  \cup {FileCall("delete", Some("f"), p, NoValue, NoText) :
          p \in {Some(PathFirst), Some(PathFilter), NoPath}}
  \cup {FileCall("delete", NoFile, Some(PathFirst), NoValue, NoText)}

\* The calls of the in-memory server: with no data, with a document as
\* data, and with data that counts as false in a condition.
MemoryCall(name, p, v, searchText, data) ==
  Request(name, TRUE, NoFile, p, v, searchText, data)

Datas == {NoValue, Some(DocB), Some(JNum(0))}

MemoryRequests ==
  {NoArgs(name) : name \in {"get_data", "set"}}
  \cup {MemoryCall("set_data", NoPath, NoValue, NoText, Some(DocA))}
  \cup {MemoryCall("search", NoPath, NoValue, Some(<<"1">>), Some(DocB))}
  \cup {MemoryCall("replace", Some(PathFirst), Some(JNum(2)), NoText, d) : d \in Datas}
  \cup {MemoryCall("insert", Some(PathFirst), Some(JNum(2)), NoText, NoValue)}
  \cup {MemoryCall("delete", Some(p), NoValue, NoText, NoValue) : p \in {PathFirst, PathFilter}}

Requests == IF variant = "file" THEN FileRequests ELSE MemoryRequests

\* The persisted documents when a server starts: a file that holds a
\* document and a file that holds no JSON; the empty map of jsonData.
Store0(v) ==
  IF v = "file"
  THEN ("f" :> [readable |-> TRUE, doc |-> DocA]) @@ ("g" :> [readable |-> FALSE, doc |-> JNull])
  ELSE (jsonData :> [readable |-> TRUE, doc |-> JMap(<<>>)])

NoCaller ==
  /\ doc = JNull
  /\ path = <<>>
  /\ newValue = JNull
  /\ origin = NoCall
  /\ last = [op |-> "none", arg |-> JNull, seen |-> JNull, ok |-> TRUE,
             out |-> JNull, res |-> <<>>, text |-> <<>>, from |-> NoCall]

ServerInit ==
  /\ variant \in {"file", "memory"}
  /\ store = Store0(variant)
  /\ inbox = <<>>
  /\ active = <<>>
  /\ journal = <<>>
  /\ NoCaller

\* A tool call arrives.
Receive ==
  /\ variant # "none"
  /\ Len(inbox) + Len(active) + Len(journal)
       < (IF variant = "file" THEN MaxFileCalls ELSE MaxMemoryCalls)
  /\ \E req \in Requests : inbox' = Append(inbox, req)
  /\ UNCHANGED <<variant, store, active, journal, cvars>>

\* The entry of an answered call.
Entry(req, reply, before, after, waiting) ==
  [req |-> req, reply |-> reply, before |-> before, after |-> after, waiting |-> waiting]

\* A handler that has begun and read data.
Handler(req, data) ==
  [req |-> req, pc |-> "read", data |-> data, before |-> store,
   waiting |-> Len(inbox) - 1 + Len(active)]

\* Every handler that has begun stands where it lets others run.
OthersSuspended(i) == \A j \in (1..Len(active)) \ {i} : Suspends(active[j].pc)

\* The file-backed handler up to the read of the file.
FileBegin ==
  /\ variant = "file"
  /\ inbox # <<>>
  /\ OthersSuspended(0)
  /\ LET req == Head(inbox)
         early == FileEarly(req)
         waiting == Len(inbox) - 1 + Len(active)
     IN /\ inbox' = Tail(inbox)
        /\ IF early # NoReply
           THEN /\ journal' = Append(journal, Entry(req, early, store, store, waiting))
                /\ UNCHANGED active
           ELSE IF ~readJSONFile(store, req.file.v).ok
                THEN /\ journal' = Append(journal,
                                          Entry(req, Err(ReadText, ""), store, store, waiting))
                     /\ UNCHANGED active
                ELSE /\ active' = Append(active,
                                         Handler(req, readJSONFile(store, req.file.v).doc))
                     /\ UNCHANGED journal
  /\ UNCHANGED <<variant, store, cvars>>

\* The core call of handler h.
CoreOf(h) ==
  Core(h.req.name, h.data, h.req.path.v, h.req.newValue.v, h.req.searchText.v, ServerPaths)

\* The response of a file-backed case whose core call made o.
FileReply(req, o) == IF o.ok THEN Ok("", o.doc, o.res) ELSE Err(CoreText(req.name), "")

\* Handler i ends: the store is st from now on, the call is answered.
Answer(i, reply, st) ==
  /\ store' = st
  /\ journal' = Append(journal,
                       Entry(active[i].req, reply, active[i].before, st, active[i].waiting))
  /\ active' = RemoveAt(active, i)

FileAnswer(i, o) == Answer(i, FileReply(active[i].req, o), FilePersist(store, active[i].req, o))

\* The file-backed handler from the core call to the response.
FileEnd ==
  /\ variant = "file"
  /\ \E i \in 1..Len(active) :
       /\ OthersSuspended(i)
       /\ FileAnswer(i, CoreOf(active[i]))
  /\ UNCHANGED <<variant, inbox, cvars>>

\* The in-memory handler up to the choice of the data.
MemoryBegin ==
  /\ variant = "memory"
  /\ inbox # <<>>
  /\ OthersSuspended(0)
  /\ LET req == Head(inbox)
         early == MemoryEarly(req)
     IN /\ inbox' = Tail(inbox)
        /\ IF early # NoReply
           THEN /\ journal' = Append(journal,
                                     Entry(req, early, store, store,
                                           Len(inbox) - 1 + Len(active)))
                /\ UNCHANGED active
           ELSE /\ active' = Append(active, Handler(req, DataOr(req.data, store[jsonData].doc)))
                /\ UNCHANGED journal
  /\ UNCHANGED <<variant, store, cvars>>

\* The response of an in-memory case whose core call made o.
MemoryReply(req, o) ==
  IF req.name = "set_data" THEN Ok(StoredText, JNull, <<>>)
  ELSE IF req.name = "get_data" THEN Ok("", store[jsonData].doc, <<>>)
  ELSE IF o.ok THEN Ok("", o.doc, o.res)
  ELSE Err(CoreText(req.name), "")

MemoryAnswer(i, o) ==
  Answer(i, MemoryReply(active[i].req, o), MemoryPersist(store, active[i].req, o))

\* The in-memory handler from the core call to the response.
MemoryEnd ==
  /\ variant = "memory"
  /\ \E i \in 1..Len(active) :
       /\ OthersSuspended(i)
       /\ MemoryAnswer(i, CoreOf(active[i]))
  /\ UNCHANGED <<variant, inbox, cvars>>

ServerNext == Receive \/ FileBegin \/ FileEnd \/ MemoryBegin \/ MemoryEnd

ServerSpec == ServerInit /\ [][ServerNext]_vars

(***************************************************************************)
(* Properties.  They are stated on values: on the input of the last call,  *)
(* the document it returned and the routes the path resolves to in the     *)
(* input.                                                                  *)
(***************************************************************************)
\* The locations path p resolves to in value t.
Matches(t, p) == Resolve(HeapOf(DataSpace, t), <<DataSpace>>, p)

RouteOf(a) == Tail(a)

\* The routes of the matches, in resolution order (the root is <<>>).
MatchRoutes(t, p) ==
  LET m == Matches(t, p) IN [i \in 1..Len(m.locs) |-> RouteOf(m.locs[i].value)]

MatchSet(t, p) == {MatchRoutes(t, p)[i] : i \in 1..Len(MatchRoutes(t, p))}

Resolves(t, p) == ~Matches(t, p).err

ParentRoute(r) == SubSeq(r, 1, Len(r) - 1)

IsPrefix(r, q) == Len(r) <= Len(q) /\ SubSeq(q, 1, Len(r)) = r

\* Value t with the subtree at route r replaced by x.
RECURSIVE Put(_, _, _)
Put(t, r, x) ==
  IF r = <<>> THEN x
  ELSE [t EXCEPT !.kids =
          [i \in 1..Len(t.kids) |->
             IF i = Head(r)
             THEN [k |-> t.kids[i].k, v |-> Put(t.kids[i].v, Tail(r), x)]
             ELSE t.kids[i]]]

\* What a node is by itself: its kind, scalar value, and keys in order.
Shape(t) ==
  [kind |-> t.kind, n |-> t.n, s |-> t.s, keys |-> [i \in 1..Len(t.kids) |-> t.kids[i].k]]

HasFilter(p) == \E i \in 1..Len(p) : p[i].t \in {"fkey", "fself"}

HasDescent(p) == \E i \in 1..Len(p) : p[i].deep

\* C1: whatever operation was called, and whether it returned or threw,
\* the caller's document is after the call what it was before it.
NonMutation == last.op # "none" => last.seen = last.arg

NonMutationWitness == last.op \in EditOps /\ last.ok /\ last.out # last.arg

\* The last call was a delete whose path resolves to exactly one location,
\* a child of a node of the given kind.
DeleteOneOf(kind) ==
  /\ last.op = "delete"
  /\ Resolves(last.arg, path)
  /\ Len(MatchRoutes(last.arg, path)) = 1
  /\ MatchRoutes(last.arg, path)[1] # <<>>
  /\ Sub(last.arg, ParentRoute(MatchRoutes(last.arg, path)[1])).kind = kind

\* C2: deleting the one matched element i of an N-element array leaves N-1
\* elements, those before i in place, those after i moved down by one, and
\* nothing outside the array changed.
DeleteShrinksAndReindexes ==
  DeleteOneOf("arr") =>
    LET r == MatchRoutes(last.arg, path)[1]
        pr == ParentRoute(r)
        i == r[Len(r)]
        A == Sub(last.arg, pr)
        N == Len(A.kids)
    IN /\ last.ok
       /\ pr \in Routes(last.out)
       /\ LET B == Sub(last.out, pr)
          IN /\ B.kind = "arr"
             /\ Len(B.kids) = N - 1
             /\ \A j \in 1..(i - 1) : B.kids[j] = A.kids[j]
             /\ \A j \in (i + 1)..N : B.kids[j - 1] = A.kids[j]
       /\ Put(last.out, pr, A) = last.arg

DeleteShrinksWitness ==
  /\ DeleteOneOf("arr")
  /\ LET r == MatchRoutes(last.arg, path)[1]
     IN /\ r[Len(r)] = 2
        /\ Len(Sub(last.arg, ParentRoute(r)).kids) = 3
        /\ Sub(last.arg, r) # Sub(last.arg, ParentRoute(r) \o <<3>>)

\* The last call was a delete whose path resolves to two or more elements
\* of one array.
DeleteSeveralOfOneArray ==
  /\ last.op = "delete"
  /\ Resolves(last.arg, path)
  /\ LET R == MatchSet(last.arg, path)
     IN /\ Cardinality(R) >= 2
        /\ <<>> \notin R
        /\ \A r, q \in R : ParentRoute(r) = ParentRoute(q)
        /\ \A r \in R : Sub(last.arg, ParentRoute(r)).kind = "arr"

\* C3: a delete that matches several elements of one array leaves exactly
\* the unmatched elements of that array, in their order, whatever the order
\* in which the resolver yields the matches.
DeleteMultiKeepsUnmatched ==
  DeleteSeveralOfOneArray =>
    LET R == MatchSet(last.arg, path)
        pr == ParentRoute(CHOOSE r \in R : TRUE)
        A == Sub(last.arg, pr)
        unmatched == Keep(Range(1, Len(A.kids)), {i \in 1..Len(A.kids) : pr \o <<i>> \notin R})
    IN /\ last.ok
       /\ pr \in Routes(last.out)
       /\ Sub(last.out, pr).kids = [j \in 1..Len(unmatched) |-> A.kids[unmatched[j]]]
       /\ Put(last.out, pr, A) = last.arg

\* C4: deleting the one matched key k of a map leaves a map without k whose
\* other keys keep their values, and nothing outside the map changed.
DeleteRemovesKey ==
  DeleteOneOf("map") =>
    LET r == MatchRoutes(last.arg, path)[1]
        pr == ParentRoute(r)
        i == r[Len(r)]
        M == Sub(last.arg, pr)
    IN /\ last.ok
       /\ pr \in Routes(last.out)
       /\ LET B == Sub(last.out, pr)
          IN /\ B.kind = "map"
             /\ \A j \in 1..Len(B.kids) : B.kids[j].k # M.kids[i].k
             /\ \A j \in 1..Len(M.kids) :
                  j # i => \E l \in 1..Len(B.kids) : B.kids[l] = M.kids[j]
             /\ Len(B.kids) = Len(M.kids) - 1
       /\ Put(last.out, pr, M) = last.arg

DeleteRemovesKeyWitness ==
  /\ DeleteOneOf("map")
  /\ Len(Sub(last.arg, ParentRoute(MatchRoutes(last.arg, path)[1])).kids) = 2

\* The last call was a replace whose path resolves to some location.
ReplaceSome ==
  /\ last.op = "replace"
  /\ Resolves(last.arg, path)
  /\ MatchSet(last.arg, path) # {}

\* The matched routes that are not below another matched route.
Topmost(R) == {r \in R : \A q \in R : IsPrefix(q, r) => q = r}

\* C5: replace puts the new value in the slot of every match that has one
\* (all of them, not the first), and a node that is neither matched nor
\* inside a match keeps its kind, its scalar value, its length and its keys.
ReplaceOverwritesEveryMatch ==
  ReplaceSome =>
    LET R == MatchSet(last.arg, path)
    IN /\ last.ok
       /\ \A r \in Topmost(R) :
            r # <<>> => r \in Routes(last.out) /\ Sub(last.out, r) = newValue
       /\ \A q \in Routes(last.arg) :
            (\A r \in R : ~IsPrefix(r, q)) =>
               /\ q \in Routes(last.out)
               /\ Shape(Sub(last.out, q)) = Shape(Sub(last.arg, q))

ReplaceEveryMatchWitness ==
  /\ ReplaceSome
  /\ Cardinality(Topmost(MatchSet(last.arg, path))) >= 2
  /\ \A r \in MatchSet(last.arg, path) : Sub(last.arg, r) # newValue

\* C6: replace with a path that resolves to the whole document returns the
\* new value as the document.
ReplaceRootReturnsValue ==
  (/\ last.op = "replace"
   /\ Resolves(last.arg, path)
   /\ MatchSet(last.arg, path) = {<<>>})
  => last.ok /\ last.out = newValue

\* The last call was a replace of the document an earlier replace, with the
\* same path and value, returned.
ReplaceTwice == last.op = "replace" /\ last.from.op = "replace"

\* C7 as stated: replacing twice gives what replacing once gives, for
\* every path.
ReplaceIdempotentAnyPath == ReplaceTwice => last.ok /\ last.out = last.arg

\* C7: replacing twice gives what replacing once gives, for every path
\* that has no filter predicate.
ReplaceIdempotent ==
  (ReplaceTwice /\ ~HasFilter(path)) => last.ok /\ last.out = last.arg

ReplaceIdempotentWitness ==
  /\ ReplaceTwice
  /\ ~HasFilter(path)
  /\ HasDescent(path)
  /\ IsContainer(newValue)
  /\ Cardinality(MatchSet(last.arg, path)) >= 2

\* The last call was a query of the document that a replace returned, and
\* in the input of that replace the path resolves to exactly one node, a
\* scalar.
QueryAfterReplaceOfOneScalar ==
  /\ last.op = "query"
  /\ last.from.op = "replace"
  /\ Resolves(last.from.arg, path)
  /\ Len(MatchRoutes(last.from.arg, path)) = 1
  /\ IsScalar(Sub(last.from.arg, MatchRoutes(last.from.arg, path)[1]))

\* C8 as stated: the query after the replace yields exactly the new value,
\* for every path that resolves to one scalar.
RoundTripAnyPath == QueryAfterReplaceOfOneScalar => last.ok /\ last.res = <<newValue>>

\* C8: the query after the replace yields exactly the new value when the
\* path has no filter predicate, the matched scalar is not the document
\* root, and the path has no recursive descent or the new value is a scalar.
RoundTrip ==
  (/\ QueryAfterReplaceOfOneScalar
   /\ ~HasFilter(path)
   /\ MatchRoutes(last.from.arg, path)[1] # <<>>
   /\ (~HasDescent(path) \/ ~IsContainer(newValue)))
  => last.ok /\ last.res = <<newValue>>

RoundTripWitness ==
  /\ QueryAfterReplaceOfOneScalar
  /\ ~HasFilter(path)
  /\ MatchRoutes(last.from.arg, path)[1] # <<>>
  /\ ~HasDescent(path)
  /\ IsContainer(newValue)
  /\ last.res = <<newValue>>

AppendToArrays ==
  /\ last.op = "append"
  /\ Resolves(last.arg, path)
  /\ MatchRoutes(last.arg, path) # <<>>
  /\ \A r \in MatchSet(last.arg, path) : Sub(last.arg, r).kind = "arr"

\* C10 as stated: every matched array has its N former elements unchanged
\* in place and the new value at position N, and nothing else changes.
AppendOncePerArray ==
  AppendToArrays =>
    LET R == MatchSet(last.arg, path)
    IN /\ last.ok
       /\ \A r \in R :
            /\ r \in Routes(last.out)
            /\ LET A == Sub(last.arg, r)
                   B == Sub(last.out, r)
               IN /\ Len(B.kids) = Len(A.kids) + 1
                  /\ \A j \in 1..Len(A.kids) : B.kids[j] = A.kids[j]
                  /\ B.kids[Len(A.kids) + 1].v = newValue
       /\ \A q \in Routes(last.arg) :
            q \notin R => q \in Routes(last.out) /\ Shape(Sub(last.out, q)) = Shape(Sub(last.arg, q))

\* How many of the resolved locations are the node at route r.
Times(t, p, r) == Cardinality({i \in 1..Len(MatchRoutes(t, p)) : MatchRoutes(t, p)[i] = r})

\* Value t, at route r of the input, with the new value appended to every
\* matched array once for each location that resolves to it.
RECURSIVE Appended(_, _, _, _, _)
Appended(t, r, whole, p, v) ==
  [t EXCEPT !.kids =
     [i \in 1..(Len(t.kids) + Times(whole, p, r)) |->
        IF i <= Len(t.kids)
        THEN [k |-> t.kids[i].k, v |-> Appended(t.kids[i].v, r \o <<i>>, whole, p, v)]
        ELSE [k |-> <<>>, v |-> v]]]

\* C10: every matched array keeps its former elements in place and gets the
\* new value appended once for each location that resolves to it; a former
\* element changes only by the appends to the matched arrays inside it, and
\* nothing else changes.
AppendPerLocation ==
  AppendToArrays =>
    last.ok /\ last.out = Appended(last.arg, <<>>, last.arg, path, newValue)

AppendPerLocationWitness ==
  /\ AppendToArrays
  /\ Cardinality(MatchSet(last.arg, path)) >= 2
  /\ \E r \in MatchSet(last.arg, path) : Len(Sub(last.arg, r).kids) >= 1

\* The last call was an append whose path resolves to several values, one
\* of them at least not an array.
AppendToSomeNonArray ==
  /\ last.op = "append"
  /\ Resolves(last.arg, path)
  /\ Len(MatchRoutes(last.arg, path)) >= 2
  /\ \E r \in MatchSet(last.arg, path) : Sub(last.arg, r).kind # "arr"

\* C11: an append whose path resolves to several values, one of them not an
\* array at whatever position, fails: it returns no document, the caller
\* keeps the document it had, and that document is unchanged.
AppendAllOrNothing ==
  AppendToSomeNonArray =>
    /\ ~last.ok
    /\ last.out = JNull
    /\ doc = last.arg
    /\ last.seen = last.arg

\* The first match is an array, so a push was made before the failure.
AppendAllOrNothingWitness ==
  /\ AppendToSomeNonArray
  /\ Sub(last.arg, MatchRoutes(last.arg, path)[1]).kind = "arr"
  /\ ~last.ok

\* The last call was a set (op "set": first match only, op "setAll": every
\* match) whose path resolves to some location.
SetOfExisting(op) ==
  /\ last.op = op
  /\ Resolves(last.arg, path)
  /\ MatchRoutes(last.arg, path) # <<>>

\* Value t with the subtree at every route of S replaced by x; no route of
\* S is below another.
RECURSIVE PutAll(_, _, _)
PutAll(t, S, x) ==
  IF S = {} THEN t
  ELSE LET r == CHOOSE q \in S : TRUE IN PutAll(Put(t, r, x), S \ {r}, x)

\* C12: a set whose path resolves to locations returns the input with the
\* new value in the slot of the first location only, or, when applied to
\* all, in the slot of every location; the root, which has no slot, is left
\* as it is.  Nothing else differs: no key is new, no array has another
\* length.
SetOverwritesMatches ==
  /\ SetOfExisting("set") =>
       LET r == MatchRoutes(last.arg, path)[1]
       IN /\ last.ok
          /\ last.out = IF r = <<>> THEN last.arg ELSE Put(last.arg, r, newValue)
  /\ SetOfExisting("setAll") =>
       /\ last.ok
       /\ last.out = PutAll(last.arg, Topmost(MatchSet(last.arg, path) \ {<<>>}), newValue)

\* A set of the first match only, where a second match keeps its value.
SetOverwritesMatchesWitness ==
  /\ SetOfExisting("set")
  /\ LET R == MatchRoutes(last.arg, path)
     IN /\ Len(R) >= 2
        /\ R[1] # R[2]
        /\ ~IsPrefix(R[1], R[2])
        /\ Sub(last.arg, R[2]) # newValue
        /\ Sub(last.out, R[1]) = newValue
        /\ Sub(last.out, R[2]) = Sub(last.arg, R[2])

\* The last call was a set whose path resolves to no location.
SetOfMissing ==
  /\ last.op \in {"set", "setAll"}
  /\ Resolves(last.arg, path)
  /\ MatchRoutes(last.arg, path) = <<>>

\* The path without its final segment, and the final segment.
ParentPath(p) == SubSeq(p, 1, Len(p) - 1)

FinalSeg(p) == p[Len(p)]

\* The final segment of the path is a property '.name'.
EndsInDotName(p) == p # <<>> /\ FinalSeg(p).t = "child" /\ ~FinalSeg(p).deep

\* Map b is map a with one more key, key, holding x.
GainsKey(a, b, key, x) ==
  /\ b.kind = "map"
  /\ Len(b.kids) = Len(a.kids) + 1
  /\ \A i \in 1..Len(a.kids) : \E j \in 1..Len(b.kids) : b.kids[j] = a.kids[i]
  /\ \E j \in 1..Len(b.kids) : b.kids[j] = [k |-> key, v |-> x]

\* The last call was a set of a missing property '.name' whose parent path
\* resolves to maps only.
SetOfNewProperty ==
  /\ SetOfMissing
  /\ EndsInDotName(path)
  /\ Resolves(last.arg, ParentPath(path))
  /\ MatchRoutes(last.arg, ParentPath(path)) # <<>>
  /\ \A r \in MatchSet(last.arg, ParentPath(path)) : Sub(last.arg, r).kind = "map"

\* C13: a set of a missing property '.name' whose parent path resolves to
\* maps returns the input with the key name, holding the new value, added to
\* the first resolved parent; no other parent gains the key and nothing else
\* differs, whether or not the set applies to all.
SetCreatesOnFirstParent ==
  SetOfNewProperty =>
    LET r == MatchRoutes(last.arg, ParentPath(path))[1]
        M == Sub(last.arg, r)
    IN /\ last.ok
       /\ r \in Routes(last.out)
       /\ GainsKey(M, Sub(last.out, r), FinalSeg(path).key, newValue)
       /\ Put(last.out, r, M) = last.arg

SetCreatesOnFirstParentWitness ==
  /\ SetOfNewProperty
  /\ last.op = "setAll"
  /\ Cardinality(MatchSet(last.arg, ParentPath(path))) >= 2
  /\ last.ok

\* One map of the input has the new value under one key, a key it gained
\* or a key it had, and nothing else differs between the input and the
\* returned document.
AtMostOneKeyGained ==
  \E r \in Routes(last.arg) :
    /\ r \in Routes(last.out)
    /\ Sub(last.arg, r).kind = "map"
    /\ Sub(last.out, r).kind = "map"
    /\ LET A == Sub(last.arg, r).kids
           B == Sub(last.out, r).kids
       IN \E j \in 1..Len(B) :
            /\ B[j].v = newValue
            /\ \/ RemoveAt(B, j) = A
               \/ /\ Len(A) = Len(B)
                  /\ A[j].k = B[j].k
                  /\ \A i \in 1..Len(A) : i # j => A[i] = B[i]
    /\ Put(last.out, r, Sub(last.arg, r)) = last.arg

\* C14: a set whose path resolves to no location and whose parent path
\* resolves to no location either fails and returns no document; a set that
\* resolves to no location and returns a document has added one key to one
\* map and nothing else.
SetNeverCreatesIntermediate ==
  /\ (/\ SetOfMissing
      /\ path # <<>>
      /\ Resolves(last.arg, ParentPath(path))
      /\ MatchRoutes(last.arg, ParentPath(path)) = <<>>)
     => ~last.ok /\ last.out = JNull
  /\ (SetOfMissing /\ last.ok) => AtMostOneKeyGained

\* The last call was a set whose path resolves to no location, ends in a
\* segment of one of the given kinds, and has a parent path that resolves.
SetOfMissingFinal(kinds) ==
  /\ SetOfMissing
  /\ path # <<>>
  /\ FinalSeg(path).t \in kinds
  /\ ~FinalSeg(path).deep
  /\ Resolves(last.arg, ParentPath(path))

\* C15: a set of a missing property written ['name'], whose parent path
\* resolves to a map, returns the input with the key name, holding the new
\* value, added to that map, and no other key anywhere.
SetCreatesBracketProperty ==
  (/\ SetOfMissingFinal({"name"})
   /\ MatchRoutes(last.arg, ParentPath(path)) # <<>>
   /\ Sub(last.arg, MatchRoutes(last.arg, ParentPath(path))[1]).kind = "map")
  => LET r == MatchRoutes(last.arg, ParentPath(path))[1]
         M == Sub(last.arg, r)
     IN /\ last.ok
        /\ r \in Routes(last.out)
        /\ GainsKey(M, Sub(last.out, r), FinalSeg(path).key, newValue)
        /\ Put(last.out, r, M) = last.arg

\* C16: a set whose path resolves to no location and ends in an index, a
\* wildcard, a slice, a union or a filter fails, and no map gains a key.
SetRefusesNonProperty ==
  SetOfMissingFinal({"index", "wild", "slice", "union", "fkey", "fself"})
  => ~last.ok /\ last.out = JNull /\ doc = last.arg

\* C17: a set whose path resolves to no location and whose parent path
\* resolves first to an array, a scalar or null fails and returns no
\* document.
SetRefusesNonMapParent ==
  (/\ SetOfMissing
   /\ path # <<>>
   /\ Resolves(last.arg, ParentPath(path))
   /\ MatchRoutes(last.arg, ParentPath(path)) # <<>>
   /\ Sub(last.arg, MatchRoutes(last.arg, ParentPath(path))[1]).kind # "map")
  => ~last.ok /\ last.out = JNull

\* Two characters that are equal, or the upper and the lower case of one
\* letter.
SameIgnoringCase(c, d) ==
  \/ c = d
  \/ \E i \in 1..Len(Uppers) : {c, d} = {Uppers[i], Lowers[i]}

ContainsIgnoringCase(hay, needle) ==
  \E i \in 0..Len(hay) :
    /\ i + Len(needle) <= Len(hay)
    /\ \A j \in 1..Len(needle) : SameIgnoringCase(hay[i + j], needle[j])

\* The string form of a scalar.
TextOf(t) ==
  CASE t.kind = "str" -> t.s
    [] t.kind = "num" -> NumStr(t.n)
    [] OTHER -> IF t.n = 1 THEN <<"t", "r", "u", "e">> ELSE <<"f", "a", "l", "s", "e">>

\* The routes of the nodes of t a search for needle is to return.
Hits(t, needle) ==
  {q \in Routes(t) : IsScalar(Sub(t, q)) /\ ContainsIgnoringCase(TextOf(Sub(t, q)), needle)}

\* C18: a search returns exactly the string, number and boolean nodes whose
\* string form contains the text ignoring case, each once; no array, map or
\* null is returned.
SearchReturnsMatchingScalars ==
  last.op = "search" =>
    LET H == Hits(last.arg, last.text)
        found == {last.res[i].value : i \in 1..Len(last.res)}
    IN /\ last.ok
       /\ \A x \in found : IsScalar(x)
       /\ found = {Sub(last.arg, q) : q \in H}
       /\ \A x \in found :
            Cardinality({i \in 1..Len(last.res) : last.res[i].value = x})
              = Cardinality({q \in H : Sub(last.arg, q) = x})

\* The text differs in case from the string that contains it, and the
\* document has numbers or booleans besides.
SearchReturnsMatchingScalarsWitness ==
  /\ last.op = "search"
  /\ \E q \in Hits(last.arg, last.text) :
       /\ Sub(last.arg, q).kind = "str"
       /\ ~Includes(Sub(last.arg, q).s, last.text)
  /\ \E q \in Routes(last.arg) : Sub(last.arg, q).kind \in {"bool", "num"}
  /\ Len(last.res) >= 1

\* The path string of the node at route r of t: '$', then '[index]' for a
\* step into an array and '.key' for a step into a map.
RECURSIVE CanonFrom(_, _)
CanonFrom(t, r) ==
  IF r = <<>> THEN <<>>
  ELSE (IF t.kind = "arr"
        THEN <<"[">> \o NumStr(Head(r) - 1) \o <<"]">>
        ELSE <<".">> \o t.kids[Head(r)].k)
       \o CanonFrom(t.kids[Head(r)].v, Tail(r))

CanonPath(t, r) == <<"$">> \o CanonFrom(t, r)

\* The routes of t depth first: a node, then its children in their order.
RECURSIVE DocOrder(_)
RECURSIVE DocOrderKids(_, _)
DocOrderKids(t, i) ==
  IF i > Len(t.kids) THEN <<>>
  ELSE [j \in 1..Len(DocOrder(t.kids[i].v)) |-> <<i>> \o DocOrder(t.kids[i].v)[j]]
       \o DocOrderKids(t, i + 1)

DocOrder(t) == <<<<>>>> \o DocOrderKids(t, 1)

\* The nodes of t to return for needle, depth first in the order of the
\* entries of t, each with its path string.
Listing(t, needle) ==
  LET M == Keep(DocOrder(t), Hits(t, needle))
  IN [i \in 1..Len(M) |-> [path |-> CanonPath(t, M[i]), value |-> Sub(t, M[i])]]

\* The last call was a search of the document returned by a set that
\* created a key: the map at route r has its entry j more than it had.
Created(r, j) ==
  /\ last.op = "search"
  /\ last.from.op \in {"set", "setAll"}
  /\ r \in Routes(last.from.arg)
  /\ r \in Routes(last.arg)
  /\ Sub(last.from.arg, r).kind = "map"
  /\ Sub(last.arg, r).kind = "map"
  /\ j \in 1..Len(Sub(last.arg, r).kids)
  /\ RemoveAt(Sub(last.arg, r).kids, j) = Sub(last.from.arg, r).kids
  /\ Put(last.arg, r, Sub(last.from.arg, r)) = last.from.arg

Creations ==
  {c \in Routes(last.arg) \X (1..(MaxSize + 2)) : Created(c[1], c[2])}

\* The searched document with its entries in insertion order: a key that
\* the set before the search created is the last entry of its map.
InInsertionOrder ==
  IF last.op = "search" /\ Creations # {}
  THEN LET c == CHOOSE x \in Creations : TRUE
           B == Sub(last.arg, c[1])
       IN Put(last.arg, c[1], [B EXCEPT !.kids = Append(RemoveAt(B.kids, c[2]), B.kids[c[2]])])
  ELSE last.arg

IndexKeysFirst(t) ==
  \A q \in Routes(t) :
    Sub(t, q).kind = "map" =>
      LET kids == Sub(t, q).kids
      IN \A i, j \in 1..Len(kids) :
           (i < j /\ IsIndexKey(kids[j].k)) =>
             IsIndexKey(kids[i].k) /\ KeyNum(kids[i].k) < KeyNum(kids[j].k)

DeleteOfRoot ==
  /\ last.op = "delete"
  /\ Resolves(last.arg, path)
  /\ <<>> \in MatchSet(last.arg, path)

\* C21: a delete whose path resolves to the whole document fails or
\* returns a document equal to the input.
DeleteKeepsRoot == DeleteOfRoot => (~last.ok \/ last.out = last.arg)

DeleteKeepsRootWitness ==
  /\ DeleteOfRoot
  /\ last.ok
  /\ Len(last.arg.kids) >= 1
  /\ last.out = last.arg

\* What replaceAtPath makes of document t, the path and the value.
ReplaceOf(t) ==
  replaceAtPath(HeapOf(ValueSpace, newValue) @@ HeapOf(DataSpace, t),
                <<DataSpace>>, path, <<ValueSpace>>)

\* C28: when the path resolves to at least one location, a set with the
\* all flag returns the document that replaceAtPath returns for the same
\* document, path and value.
SetAllIsReplace ==
  SetOfExisting("setAll") =>
    LET b == ReplaceOf(last.arg)
    IN /\ last.ok
       /\ b.ok
       /\ last.out = Value(b.heap, b.root)

\* A set with the all flag that overwrote several locations, one of them
\* in an array.
SetAllIsReplaceWitness ==
  /\ SetOfExisting("setAll")
  /\ last.ok
  /\ last.out # last.arg
  /\ Cardinality(MatchSet(last.arg, path)) >= 2
  /\ \E r \in MatchSet(last.arg, path) : r # <<>> /\ Sub(last.arg, ParentRoute(r)).kind = "arr"

\* The last call was an insert whose path resolves to elements of one array.
InsertIntoOneArray ==
  /\ last.op = "insert"
  /\ Resolves(last.arg, path)
  /\ LET R == MatchSet(last.arg, path)
     IN /\ R # {}
        /\ <<>> \notin R
        /\ \A r, q \in R : ParentRoute(r) = ParentRoute(q)
        /\ \A r \in R : Sub(last.arg, ParentRoute(r)).kind = "arr"

\* The elements of array A with x put after each one whose index is in M.
RECURSIVE Interleave(_, _, _, _)
Interleave(kids, i, M, x) ==
  IF i > Len(kids) THEN <<>>
  ELSE <<kids[i].v>> \o (IF i \in M THEN <<x>> ELSE <<>>) \o Interleave(kids, i + 1, M, x)

\* C27: an insert whose path resolves to k distinct elements of an
\* N-element array returns that array with N+k elements, the original
\* elements in their order and the value directly after each matched one.
InsertAfterEachMatch ==
  InsertIntoOneArray =>
    LET R == MatchSet(last.arg, path)
        pr == ParentRoute(CHOOSE r \in R : TRUE)
        A == Sub(last.arg, pr)
        M == {i \in 1..Len(A.kids) : pr \o <<i>> \in R}
        want == Interleave(A.kids, 1, M, newValue)
    IN /\ last.ok
       /\ pr \in Routes(last.out)
       /\ LET B == Sub(last.out, pr)
          IN /\ B.kind = "arr"
             /\ Len(B.kids) = Len(A.kids) + Cardinality(R)
             /\ [j \in 1..Len(B.kids) |-> B.kids[j].v] = want

\* C29: within one search no two matches get the same path text, whatever
\* characters the keys of the document hold.
SearchPathsUnambiguous ==
  last.op = "search" =>
    \A i, j \in 1..Len(last.res) : last.res[i].path = last.res[j].path => i = j

(***************************************************************************)
(* The servers: what the journal tells.                                    *)
(***************************************************************************)
Entries == {journal[i] : i \in 1..Len(journal)}

\* C22: a call answered with an error leaves the persisted documents as
\* they were when its handler began, in both variants.
ErrorLeavesStore == \A e \in Entries : e.reply.isError => e.after = e.before

\* An edit of a file that failed in the core function after an earlier
\* edit had changed the file.
ErrorLeavesStoreWitness ==
  /\ variant = "file"
  /\ Len(journal) = 2
  /\ journal[2].req.name \in FileEdits
  /\ journal[2].reply.isError
  /\ journal[2].reply.text = CoreText(journal[2].req.name)
  /\ journal[2].before # Store0("file")
  /\ store = journal[2].before

\* The content of file f after the first n answered calls, as the result
\* of the last edit of f that succeeded, or as the file was at the start.
RECURSIVE LastResult(_, _)
LastResult(f, n) ==
  IF n = 0 THEN Store0("file")[f]
  ELSE IF /\ journal[n].req.name \in FileEdits
          /\ ~journal[n].reply.isError
          /\ journal[n].req.file = Some(f)
       THEN [readable |-> TRUE, doc |-> journal[n].reply.doc]
       ELSE LastResult(f, n - 1)

\* C23: in the file-backed server every file holds the document returned
\* by the last successful edit of it, its initial content if there was
\* none, and a search or a query writes no file.
FileHoldsLastResult ==
  variant = "file" =>
    /\ \A f \in DOMAIN store : store[f] = LastResult(f, Len(journal))
    /\ \A e \in Entries : e.req.name \in {"search", "query"} => e.after = e.before

\* Two edits of one file that succeeded, the second on the result of the
\* first.
FileHoldsLastResultWitness ==
  /\ variant = "file"
  /\ Len(journal) = 2
  /\ \A i \in 1..2 : journal[i].req.name \in FileEdits /\ ~journal[i].reply.isError
  /\ journal[1].after # journal[1].before
  /\ journal[2].after # journal[2].before
  /\ store["f"].doc = journal[2].reply.doc

\* The parameters a tool of the file-backed server requires.
Required(name) ==
  CASE name = "search" -> {"file", "searchText"}
    [] name \in {"query", "delete"} -> {"file", "path"}
    [] name \in {"replace", "appendToArray"} -> {"file", "path", "newValue"}
    [] name = "set" -> {"file", "path", "value"}
    [] OTHER -> {}

\* Those of them a call lacks.
Absent(req) ==
  {x \in Required(req.name) :
     \/ ~req.hasArgs
     \/ x = "file" /\ ~req.file.has
     \/ x = "path" /\ ~req.path.has
     \/ x = "searchText" /\ ~req.searchText.has
     \/ x \in {"newValue", "value"} /\ ~req.newValue.has}

\* C24: in the file-backed server a call that lacks a required parameter
\* is answered with isError and the text that names a parameter it lacks;
\* a call that lacks none is answered with isError exactly when the tool is
\* unknown, the file cannot be read or the core function fails.
ResponseNamesMissing ==
  variant = "file" =>
    \A e \in Entries :
      IF Absent(e.req) # {}
      THEN /\ e.reply.isError
           /\ e.reply.text = MissingText
           /\ e.reply.param \in Absent(e.req)
      ELSE e.reply.isError <=>
             \/ e.req.name \notin FileTools
             \/ ~e.before[e.req.file.v].readable
             \/ ~Core(e.req.name, e.before[e.req.file.v].doc, e.req.path.v, e.req.newValue.v,
                      e.req.searchText.v, ServerPaths).ok

\* C25: in the in-memory server a replace, insert or delete that has a
\* data argument leaves the stored document as it was and, when data is a
\* document, returns what the core function makes of data; one that has
\* none returns what the core function makes of the stored document and
\* stores it.
DataArgumentKeepsStore ==
  variant = "memory" =>
    \A e \in Entries :
      (e.req.name \in MemoryEdits /\ e.req.hasArgs) =>
        IF e.req.data.has
        THEN /\ e.after = e.before
             /\ IsContainer(e.req.data.v) =>
                  e.reply = MemoryReply(e.req, Core(e.req.name, e.req.data.v, e.req.path.v,
                                                    e.req.newValue.v, <<>>, ServerPaths))
        ELSE LET o == Core(e.req.name, e.before[jsonData].doc, e.req.path.v,
                           e.req.newValue.v, <<>>, ServerPaths)
             IN /\ e.reply = MemoryReply(e.req, o)
                /\ e.after[jsonData].doc = IF o.ok THEN o.doc ELSE e.before[jsonData].doc

\* The document most recently stored by the first n answered calls: the
\* argument of the last set_data, or the result of a later replace,
\* insert or delete without data that succeeded.
RECURSIVE LastStored(_)
LastStored(n) ==
  IF n = 0 THEN Store0("memory")[jsonData].doc
  ELSE IF journal[n].req.name = "set_data" THEN journal[n].req.data.v
  ELSE IF /\ journal[n].req.name \in MemoryEdits
          /\ ~journal[n].reply.isError
          /\ ~journal[n].req.data.has
       THEN journal[n].reply.doc
       ELSE LastStored(n - 1)

\* C26: in the in-memory server get_data returns the document most
\* recently stored, and search, query and get_data leave the stored
\* document as it was.
GetDataReturnsLastStored ==
  variant = "memory" =>
    \A i \in 1..Len(journal) :
      /\ journal[i].req.name = "get_data" =>
           ~journal[i].reply.isError /\ journal[i].reply.doc = LastStored(i - 1)
      /\ journal[i].req.name \in {"search", "query", "get_data"} =>
           journal[i].after = journal[i].before

\* The files after the file-backed handler has run for req alone on st.
Alone(st, req) ==
  IF FileEarly(req) # NoReply THEN st
  ELSE IF ~readJSONFile(st, req.file.v).ok THEN st
  ELSE FilePersist(st, req,
                   Core(req.name, st[req.file.v].doc, req.path.v, req.newValue.v,
                        req.searchText.v, ServerPaths))

\* Two edits of one file have been answered and no call is left.
TwoEditsOfOneFile ==
  /\ variant = "file"
  /\ Len(journal) = 2
  /\ inbox = <<>>
  /\ active = <<>>
  /\ \A i \in 1..2 : journal[i].req.name \in FileEdits /\ journal[i].req.file.has
  /\ journal[1].req.file = journal[2].req.file

\* C30: handlers of the file-backed server run one at a time from the read
\* of the file to its write, and after two edits of one file the files
\* are as after the two edits made one after the other in some order.
EditsAreSerialised ==
  /\ variant = "file" => Len(active) <= 1
  /\ TwoEditsOfOneFile =>
       \/ store = Alone(Alone(Store0("file"), journal[1].req), journal[2].req)
       \/ store = Alone(Alone(Store0("file"), journal[2].req), journal[1].req)

\* Two edits of one file, the second received before the first began, both
\* with effect.
EditsAreSerialisedWitness ==
  /\ TwoEditsOfOneFile
  /\ journal[1].waiting >= 1
  /\ \A i \in 1..2 : ~journal[i].reply.isError /\ journal[i].after # journal[i].before
  /\ store # Alone(Store0("file"), journal[2].req)

====
